---- MODULE Spec2Model ----
(***************************************************************************)
(* pgfs: mirror of a PostgreSQL catalog (database -> schema -> table) as a *)
(* tree of directories and hard links, src/pgfs.py.                        *)
(*                                                                         *)
(* The destination tree is a set of directory paths and a map from file    *)
(* paths to inode numbers; paths are sequences of names relative to        *)
(* destroot, << >> being destroot itself.  Catalog names are single path   *)
(* components other than ".pgfs", so os.path.join(dir, name) appends one   *)
(* component; SpecNames adds a table whose name is an absolute path.       *)
(* Every invocation of write_tree is a process; every system call it makes *)
(* is one step, and every system call may fail (OSError).                  *)
(***************************************************************************)
EXTENDS Integers, Sequences, FiniteSets, TLC

\* ---------------------------------------------------------------- bounds
NProcs == 2              \* concurrent invocations against one destroot
MaxRuns == 3             \* invocations started in one behaviour

Procs == 1..NProcs
SeqProcs == {1}

\* ------------------------------------------------------------ data model
Table(name, relfilenode) == [name |-> name, relfilenode |-> relfilenode]

Schema(oid, name, tables) == [oid |-> oid, name |-> name, tables |-> tables]

Database(oid, name, schemas) == [oid |-> oid, name |-> name, schemas |-> schemas]

UniqueNames(S) == \A x \in S : \A y \in S : x.name = y.name => x = y

Names(S) == {x.name : x \in S}

\* rows of pg_class: t1 can be rewritten (relfilenode 1 or 2), t2 cannot
Tables == {Table("t1", 1), Table("t1", 2), Table("t2", 3)}

UniqueSubsets(S) == {ss \in SUBSET S : UniqueNames(ss)}

\* rows of pg_namespace with their tables: database A holds any of Tables,
\* database B at most its own t1
SchemasOf(tables) == {Schema(2200, "s", ts) : ts \in UniqueSubsets(tables)}

\* rows of pg_database with their schemas
Databases ==
    {Database(16384, "A", ss) : ss \in UniqueSubsets(SchemasOf(Tables))}
      \cup {Database(16385, "B", ss) : ss \in UniqueSubsets(SchemasOf({Table("t1", 1)}))}

\* get_contents: a list of databases with unique names
Snapshots == {S \in SUBSET Databases : UniqueNames(S)}

\* the snapshots of the concurrent specification: table A.s.t1 before and
\* after a rewrite
ConcSnapshots == {{Database(16384, "A", {Schema(2200, "s", {t})})} : t \in {Table("t1", 1), Table("t1", 2)}}

\* the snapshots of the specification with path-like names: database A
\* alone, with any of its tables or with one table whose name, which any
\* quoted identifier may be, is the absolute path of the file of A's t2
NameSnapshots ==
    {S \in Snapshots : Names(S) \subseteq {"A"}}
      \cup {{Database(16384, "A", {Schema(2200, "s", {Table("/pgroot/base/16384/3", 1)})})}}

NoTable == Table("", 0)
NoSch == Schema(0, "", {})
NoDb == Database(0, "", {})

\* ------------------------------------------------------------------ paths
destroot == << >>

\* a table name that is the absolute path of a file under pgroot, and the
\* path it denotes; paths outside destroot begin with "/"
AbsNames == ("/pgroot/base/16384/3" :> <<"/", "base", 16384, 3>>)

\* os.path.isabs
isabs(name) == name \in DOMAIN AbsNames

\* os.path.join: an absolute component discards what precedes it
join(dir, name) == IF isabs(name) THEN AbsNames[name] ELSE Append(dir, name)

\* a path under pgroot, and the same path relative to pgroot
InPgroot(path) == Len(path) = 4 /\ path[1] = "/"

PgPath(path) == SubSeq(path, 2, Len(path))

dot_pgfs == join(destroot, ".pgfs")

\* mutant of basename: the name of the entry of destroot the path is under
basename_OfTop(path) == path[1]

basename(path) == path[Len(path)]

Parent(path) == SubSeq(path, 1, Len(path) - 1)

IsUnder(path, dir) ==
    /\ Len(path) > Len(dir)
    /\ SubSeq(path, 1, Len(dir)) = dir

ProperPrefixes(path) == {SubSeq(path, 1, k) : k \in 0..(Len(path) - 1)}

\* src_file of _write_tree: <pgroot>/base/<db.oid>/<t.relfilenode>
SrcFile(db, t) == <<"base", db.oid, t.relfilenode>>

BaseFiles == {SrcFile(db, t) : db \in Databases, t \in Tables}

VARIABLES
    dirs,        \* directories under destroot (destroot is << >>)
    files,       \* regular files under destroot: path -> inode number
    storage,     \* files under pgroot: path -> inode number
    same_volume, \* whether destroot and pgroot are on one filesystem
    lock,        \* pid of the process holding the lockf lock on .pgfs, 0 if none
    pid,         \* the process id of each invocation, a new one at every start
    pc,          \* where each invocation is
    databases,   \* the snapshot each invocation was given
    loc,         \* the loop variables of _write_tree of each invocation
    outcome,     \* how each invocation ended, or its pending exception
    created,     \* paths each invocation created in this run
    removed,     \* paths each invocation removed in this run
    base,        \* {S} if the tree was synced to S when the run started
    retry,       \* whether the run repeats the snapshot of an aborted run
    lastSync,    \* {S} if the tree is as the last successful run, of S, left it
    runs         \* invocations started so far

vars == <<dirs, files, storage, same_volume, lock, pid, pc, databases, loc, outcome,
          created, removed, base, retry, lastSync, runs>>

fsvars == <<dirs, files, storage, created, removed, lastSync>>

NoLoc == [dbs |-> {}, db |-> NoDb, schs |-> {}, sch |-> NoSch,
          ts |-> {}, t |-> NoTable,
          it |-> {}, d |-> << >>, it2 |-> {}, d2 |-> << >>, it3 |-> {}]

\* ------------------------------------------------------ file system calls
Entries == dirs \cup DOMAIN files

listdir(dir) == {path \in Entries : Len(path) = Len(dir) + 1 /\ Parent(path) = dir}

Under(dir) == {path \in Entries : IsUnder(path, dir)}

\* os.stat(f).st_ino of a file under destroot; -1 stands for a directory's inode
st_ino(path) ==
    IF InPgroot(path) THEN storage[PgPath(path)]
    ELSE IF path \in DOMAIN files THEN files[path] ELSE -1

\* mutant of makedirs_err: os.makedirs without exist_ok
makedirs_err_NoExistOk(path) ==
    IF path \in Entries THEN "FileExistsError"
    ELSE IF \E q \in ProperPrefixes(path) : q \in DOMAIN files THEN "NotADirectoryError"
    ELSE "ok"

\* what each call raises in the current tree, "ok" if it succeeds
makedirs_err(path) ==
    IF path \in DOMAIN files THEN "FileExistsError"
    ELSE IF \E q \in ProperPrefixes(path) : q \in DOMAIN files THEN "NotADirectoryError"
    ELSE "ok"

\* os.path.lexists
Exists(path) ==
    IF InPgroot(path) THEN PgPath(path) \in DOMAIN storage ELSE path \in Entries

link_err(src, dst) ==
    IF src \notin DOMAIN storage THEN "FileNotFoundError"
    ELSE IF Exists(dst) THEN "FileExistsError"
    ELSE IF ~InPgroot(dst) /\ Parent(dst) \notin dirs THEN "FileNotFoundError"
    ELSE IF ~same_volume THEN "OSError(EXDEV)"
    ELSE "ok"

unlink_err(path) ==
    IF InPgroot(path)
    THEN IF PgPath(path) \in DOMAIN storage THEN "ok" ELSE "FileNotFoundError"
    ELSE IF path \in DOMAIN files THEN "ok"
    ELSE IF path \in dirs THEN "IsADirectoryError"
    ELSE "FileNotFoundError"

scandir_err(path) ==
    IF path \in dirs THEN "ok"
    ELSE IF path \in DOMAIN files THEN "NotADirectoryError"
    ELSE "FileNotFoundError"

open_err(path) ==
    IF path \in DOMAIN files THEN "ok"
    ELSE IF path \in dirs THEN "IsADirectoryError"
    ELSE "FileNotFoundError"

creat_excl_err(path) ==
    IF path \in Entries THEN "FileExistsError"
    ELSE IF Parent(path) \notin dirs THEN "FileNotFoundError"
    ELSE "ok"

\* the ways a call can end: as the tree decides, or with an I/O error
Results(err) == IF err = "ok" THEN {"ok", "OSError"} ELSE {err}

Restrict(f, S) == [x \in S |-> f[x]]

\* the effects of the calls that succeed, by invocation p
DoMakedirs(p, path) ==
    LET new == (ProperPrefixes(path) \cup {path}) \ dirs IN
    /\ dirs' = dirs \cup new
    /\ files' = files
    /\ storage' = storage
    /\ created' = [created EXCEPT ![p] = @ \cup new]
    /\ removed' = removed
    /\ lastSync' = IF new = {} THEN lastSync ELSE {}

DoCreate(p, path, ino) ==
    /\ IF InPgroot(path)
       THEN /\ files' = files
            /\ storage' = [q \in DOMAIN storage \cup {PgPath(path)} |->
                              IF q = PgPath(path) THEN ino ELSE storage[q]]
       ELSE /\ files' = [q \in DOMAIN files \cup {path} |->
                            IF q = path THEN ino ELSE files[q]]
            /\ storage' = storage
    /\ dirs' = dirs
    /\ created' = [created EXCEPT ![p] = @ \cup {path}]
    /\ removed' = removed
    /\ lastSync' = {}

DoRemove(p, gone) ==
    /\ files' = Restrict(files, DOMAIN files \ gone)
    /\ storage' = Restrict(storage, DOMAIN storage \ {PgPath(q) : q \in {r \in gone : InPgroot(r)}})
    /\ dirs' = dirs \ gone
    /\ removed' = [removed EXCEPT ![p] = @ \cup gone]
    /\ created' = created
    /\ lastSync' = IF gone = {} THEN lastSync ELSE {}

\* shutil.rmtree(path) that fails part-way: the entries already removed.  A
\* directory goes only after everything under it, and in each directory at
\* most one child is left half-removed (the one the error happened in).
Closed(R) == \A q \in R : q \in dirs => Under(q) \subseteq R

HalfRemoved(q, R) == q \in dirs /\ q \notin R /\ Under(q) \cap R # {}

PartialRemovals(path) ==
    {R \in SUBSET Under(path) :
        /\ Closed(R)
        /\ \A q \in (dirs \ R) :
              (q = path \/ IsUnder(q, path)) =>
                 Cardinality({c \in listdir(q) : HalfRemoved(c, R)}) <= 1}

\* ------------------------------------------------------- control transfer
NoFsChange == UNCHANGED fsvars

\* an exception raised outside the try block of write_tree ends the invocation
RaiseOutside(p, e) ==
    /\ pc' = [pc EXCEPT ![p] = "exited"]
    /\ outcome' = [outcome EXCEPT ![p] = e]
    /\ loc' = [loc EXCEPT ![p] = NoLoc]

\* mutant of RaiseInTry: no finally clause
RaiseInTry_NoFinally(p, e) == RaiseOutside(p, e)

\* one raised in _write_tree runs the finally clause first (line 182)
RaiseInTry(p, e) ==
    /\ pc' = [pc EXCEPT ![p] = "unlock"]
    /\ outcome' = [outcome EXCEPT ![p] = e]
    /\ loc' = [loc EXCEPT ![p] = NoLoc]

Goto(p, label) ==
    /\ pc' = [pc EXCEPT ![p] = label]
    /\ outcome' = outcome

\* ------------------------------------------------------------ write_tree
\* how an invocation given S stands to the one before it: "no" unless that
\* one was given S too and was cut short by an I/O error, "midrepair" when
\* it was cut short between the os.unlink and the os.link of lines 105-106
Retried(p, S) ==
    IF pc[p] = "exited" /\ outcome[p] = "OSError" /\ databases[p] = S
    THEN IF \E f \in removed[p] \ created[p] :
               \E db \in S : \E sch \in db.schemas : \E t \in sch.tables :
                  f = join(join(join(destroot, db.name), sch.name), t.name)
         THEN "midrepair"
         ELSE "aborted"
    ELSE "no"

\* main/build_tree: an invocation is given destroot and a snapshot
Start(p, S) ==
    /\ pc[p] \in {"idle", "exited"}
    /\ runs < MaxRuns
    /\ runs' = runs + 1
    /\ pid' = [pid EXCEPT ![p] = IF @ = 0 THEN p ELSE @ + NProcs]
    /\ pc' = [pc EXCEPT ![p] = "isdir"]
    /\ databases' = [databases EXCEPT ![p] = S]
    /\ outcome' = [outcome EXCEPT ![p] = "running"]
    /\ created' = [created EXCEPT ![p] = {}]
    /\ removed' = [removed EXCEPT ![p] = {}]
    /\ base' = [base EXCEPT ![p] = lastSync]
    /\ retry' = [retry EXCEPT ![p] = Retried(p, S)]
    /\ UNCHANGED <<dirs, files, storage, same_volume, lock, loc, lastSync>>

\* line 170, os.path.isdir(destroot)
IsDir(p) ==
    /\ pc[p] = "isdir"
    /\ Goto(p, IF destroot \in dirs THEN "listdir" ELSE "makedirs")
    /\ NoFsChange
    /\ UNCHANGED <<same_volume, lock, pid, databases, loc, base, retry, runs>>

\* mutant of ListDir: len(os.listdir(destroot)) > 1
ListDir_OffByOne(p) ==
    /\ pc[p] = "listdir"
    /\ Goto(p, IF Cardinality(listdir(destroot)) > 1 THEN "isfile" ELSE "makedirs")
    /\ loc' = loc
    /\ NoFsChange
    /\ UNCHANGED <<same_volume, lock, pid, databases, base, retry, runs>>

\* line 170, len(os.listdir(destroot)) > 0
ListDir(p) ==
    /\ pc[p] = "listdir"
    /\ \E e \in Results(scandir_err(destroot)) :
          IF e = "ok"
          THEN /\ Goto(p, IF listdir(destroot) # {} THEN "isfile" ELSE "makedirs")
               /\ loc' = loc
          ELSE RaiseOutside(p, e)
    /\ NoFsChange
    /\ UNCHANGED <<same_volume, lock, pid, databases, base, retry, runs>>

\* lines 171-174, os.path.isfile(dot_pgfs), else warn and sys.exit(1)
IsFile(p) ==
    /\ pc[p] = "isfile"
    /\ IF dot_pgfs \in DOMAIN files
       THEN Goto(p, "open") /\ loc' = loc
       ELSE RaiseOutside(p, "UnsafeRoot")
    /\ NoFsChange
    /\ UNCHANGED <<same_volume, lock, pid, databases, base, retry, runs>>

\* mutant of MakeRoot: os.makedirs(destroot) without exist_ok
MakeRoot_NoExistOk(p) ==
    /\ pc[p] = "makedirs"
    /\ \E e \in Results(IF destroot \in dirs THEN "FileExistsError"
                                              ELSE makedirs_err(destroot)) :
          IF e = "ok"
          THEN /\ DoMakedirs(p, destroot)
               /\ Goto(p, "touch")
               /\ loc' = loc
          ELSE RaiseOutside(p, e) /\ NoFsChange
    /\ UNCHANGED <<same_volume, lock, pid, databases, base, retry, runs>>

\* line 176, os.makedirs(destroot, exist_ok=True)
MakeRoot(p) ==
    /\ pc[p] = "makedirs"
    /\ \E e \in Results(makedirs_err(destroot)) :
          IF e = "ok"
          THEN /\ DoMakedirs(p, destroot)
               /\ Goto(p, "touch")
               /\ loc' = loc
          ELSE RaiseOutside(p, e) /\ NoFsChange
    /\ UNCHANGED <<same_volume, lock, pid, databases, base, retry, runs>>

\* line 177 and touch, os.open(dot_pgfs, O_CREAT | O_EXCL)
Touch(p) ==
    /\ pc[p] = "touch"
    /\ \E e \in Results(creat_excl_err(dot_pgfs)) :
          IF e = "ok"
          THEN /\ DoCreate(p, dot_pgfs, 0)
               /\ Goto(p, "open")
               /\ loc' = loc
          ELSE RaiseOutside(p, e) /\ NoFsChange
    /\ UNCHANGED <<same_volume, lock, pid, databases, base, retry, runs>>

\* lock_file, line 146: os.open(filename, os.O_RDWR)
LockOpen(p) ==
    /\ pc[p] = "open"
    /\ \E e \in Results(open_err(dot_pgfs)) :
          IF e = "ok"
          THEN Goto(p, "lockf") /\ loc' = loc
          ELSE RaiseOutside(p, e)
    /\ NoFsChange
    /\ UNCHANGED <<same_volume, lock, pid, databases, base, retry, runs>>

\* mutant of already_locked: a lock held elsewhere is not noticed
already_locked_never(p) == FALSE

\* fcntl.lockf(f, LOCK_EX | LOCK_NB): EACCES or EAGAIN when another process
\* holds a lock on the file
already_locked(p) == lock \notin {0, pid[p]}

\* mutant of LockFile: _write_tree is entered without the lockf call
LockFile_NoLock(p) ==
    /\ pc[p] = "lockf"
    /\ lock' = lock
    /\ Goto(p, "for_db")
    /\ loc' = [loc EXCEPT ![p] = [NoLoc EXCEPT !.dbs = databases[p]]]
    /\ NoFsChange
    /\ UNCHANGED <<same_volume, pid, databases, base, retry, runs>>

\* lock_file, lines 147-155, and the entry of _write_tree
LockFile(p) ==
    /\ pc[p] = "lockf"
    /\ \E e \in Results(IF already_locked(p) THEN "AlreadyLocked" ELSE "ok") :
          IF e = "ok"
          THEN /\ lock' = pid[p]
               /\ Goto(p, "for_db")
               /\ loc' = [loc EXCEPT ![p] = [NoLoc EXCEPT !.dbs = databases[p]]]
          ELSE RaiseOutside(p, e) /\ lock' = lock
    /\ NoFsChange
    /\ UNCHANGED <<same_volume, pid, databases, base, retry, runs>>

\* unlock_file in the finally clause, line 183, and the end of the invocation
UnlockFile(p) ==
    /\ pc[p] = "unlock"
    /\ lock' = IF lock = pid[p] THEN 0 ELSE lock
    /\ pc' = [pc EXCEPT ![p] = "exited"]
    /\ lastSync' = IF outcome[p] = "ok" THEN {databases[p]} ELSE lastSync
    /\ UNCHANGED <<dirs, files, storage, created, removed>>
    /\ UNCHANGED <<same_volume, pid, databases, loc, outcome, base, retry, runs>>

\* ------------------------------------------- _write_tree, the forward pass
\* mutants of same_inode: an existing link is never, or always, replaced
same_inode_always(f1, f2) == TRUE

same_inode_never(f1, f2) == FALSE

same_inode(f1, f2) == storage[f1] = st_ino(f2)

\* lines 86-88: the next db of the loop, os.makedirs(db_dir, exist_ok=True)
ForDb(p) ==
    /\ pc[p] = "for_db"
    /\ IF loc[p].dbs = {}
       THEN /\ Goto(p, "scandir")
            /\ loc' = [loc EXCEPT ![p] = NoLoc]
            /\ NoFsChange
       ELSE \E db \in loc[p].dbs :
            LET db_dir == join(destroot, db.name) IN
            \E e \in Results(makedirs_err(db_dir)) :
               IF e = "ok"
               THEN /\ DoMakedirs(p, db_dir)
                    /\ Goto(p, "for_sch")
                    /\ loc' = [loc EXCEPT ![p].dbs = @ \ {db}, ![p].db = db,
                                          ![p].schs = db.schemas]
               ELSE RaiseInTry(p, e) /\ NoFsChange
    /\ UNCHANGED <<same_volume, lock, pid, databases, base, retry, runs>>

\* mutant of ForSch: the prune pass begins when the first database is done
ForSch_PruneInLoop(p) ==
    /\ pc[p] = "for_sch"
    /\ IF loc[p].schs = {}
       THEN /\ Goto(p, "scandir")
            /\ loc' = [loc EXCEPT ![p] = NoLoc]
            /\ NoFsChange
       ELSE \E sch \in loc[p].schs :
            LET sch_dir == join(join(destroot, loc[p].db.name), sch.name) IN
            \E e \in Results(makedirs_err(sch_dir)) :
               IF e = "ok"
               THEN /\ DoMakedirs(p, sch_dir)
                    /\ Goto(p, "for_t")
                    /\ loc' = [loc EXCEPT ![p].schs = @ \ {sch}, ![p].sch = sch,
                                          ![p].ts = sch.tables]
               ELSE RaiseInTry(p, e) /\ NoFsChange
    /\ UNCHANGED <<same_volume, lock, pid, databases, base, retry, runs>>

\* lines 90-92: the next sch of the loop, os.makedirs(sch_dir, exist_ok=True)
ForSch(p) ==
    /\ pc[p] = "for_sch"
    /\ IF loc[p].schs = {}
       THEN /\ Goto(p, "for_db")
            /\ loc' = [loc EXCEPT ![p].db = NoDb]
            /\ NoFsChange
       ELSE \E sch \in loc[p].schs :
            LET sch_dir == join(join(destroot, loc[p].db.name), sch.name) IN
            \E e \in Results(makedirs_err(sch_dir)) :
               IF e = "ok"
               THEN /\ DoMakedirs(p, sch_dir)
                    /\ Goto(p, "for_t")
                    /\ loc' = [loc EXCEPT ![p].schs = @ \ {sch}, ![p].sch = sch,
                                          ![p].ts = sch.tables]
               ELSE RaiseInTry(p, e) /\ NoFsChange
    /\ UNCHANGED <<same_volume, lock, pid, databases, base, retry, runs>>

SchDir(p) == join(join(destroot, loc[p].db.name), loc[p].sch.name)

\* mutant of ForT: an error of os.link is noted and the loop goes on
ForT_ErrorNoted(p) ==
    /\ pc[p] = "for_t"
    /\ IF loc[p].ts = {}
       THEN /\ Goto(p, "for_sch")
            /\ loc' = [loc EXCEPT ![p].sch = NoSch]
            /\ NoFsChange
       ELSE \E t \in loc[p].ts :
            LET src_file == SrcFile(loc[p].db, t)
                dest_file == join(SchDir(p), t.name) IN
            \E e \in Results(link_err(src_file, dest_file)) :
               IF e = "ok"
               THEN /\ DoCreate(p, dest_file, storage[src_file])
                    /\ Goto(p, "for_t")
                    /\ loc' = [loc EXCEPT ![p].ts = @ \ {t}]
               ELSE IF e = "FileExistsError"
               THEN /\ Goto(p, "same_inode")
                    /\ loc' = [loc EXCEPT ![p].ts = @ \ {t}, ![p].t = t]
                    /\ NoFsChange
               ELSE /\ pc' = pc
                    /\ outcome' = [outcome EXCEPT ![p] = e]
                    /\ loc' = [loc EXCEPT ![p].ts = @ \ {t}]
                    /\ NoFsChange
    /\ UNCHANGED <<same_volume, lock, pid, databases, base, retry, runs>>

\* lines 94-101: the next t of the loop, os.link(src_file, dest_file);
\* FileExistsError is caught
ForT(p) ==
    /\ pc[p] = "for_t"
    /\ IF loc[p].ts = {}
       THEN /\ Goto(p, "for_sch")
            /\ loc' = [loc EXCEPT ![p].sch = NoSch]
            /\ NoFsChange
       ELSE \E t \in loc[p].ts :
            LET src_file == SrcFile(loc[p].db, t)
                dest_file == join(SchDir(p), t.name) IN
            \E e \in Results(link_err(src_file, dest_file)) :
               IF e = "ok"
               THEN /\ DoCreate(p, dest_file, storage[src_file])
                    /\ Goto(p, "for_t")
                    /\ loc' = [loc EXCEPT ![p].ts = @ \ {t}]
               ELSE IF e = "FileExistsError"
               THEN /\ Goto(p, "same_inode")
                    /\ loc' = [loc EXCEPT ![p].ts = @ \ {t}, ![p].t = t]
                    /\ NoFsChange
               ELSE RaiseInTry(p, e) /\ NoFsChange
    /\ UNCHANGED <<same_volume, lock, pid, databases, base, retry, runs>>

\* line 104: if not same_inode(src_file, dest_file)
SameInode(p) ==
    /\ pc[p] = "same_inode"
    /\ LET src_file == SrcFile(loc[p].db, loc[p].t)
           dest_file == join(SchDir(p), loc[p].t.name) IN
       \E e \in Results(IF Exists(dest_file) /\ src_file \in DOMAIN storage
                        THEN "ok" ELSE "FileNotFoundError") :
          IF e = "ok"
          THEN IF same_inode(src_file, dest_file)
               THEN /\ Goto(p, "for_t")
                    /\ loc' = [loc EXCEPT ![p].t = NoTable]
               ELSE /\ Goto(p, "unlink")
                    /\ loc' = loc
          ELSE RaiseInTry(p, e)
    /\ NoFsChange
    /\ UNCHANGED <<same_volume, lock, pid, databases, base, retry, runs>>

\* line 105: os.unlink(dest_file)
Unlink(p) ==
    /\ pc[p] = "unlink"
    /\ LET dest_file == join(SchDir(p), loc[p].t.name) IN
       \E e \in Results(unlink_err(dest_file)) :
          IF e = "ok"
          THEN /\ DoRemove(p, {dest_file})
               /\ Goto(p, "link")
               /\ loc' = loc
          ELSE RaiseInTry(p, e) /\ NoFsChange
    /\ UNCHANGED <<same_volume, lock, pid, databases, base, retry, runs>>

\* mutant of Link: the stale link is removed and not made again
Link_Skip(p) ==
    /\ pc[p] = "link"
    /\ Goto(p, "for_t")
    /\ loc' = [loc EXCEPT ![p].t = NoTable]
    /\ NoFsChange
    /\ UNCHANGED <<same_volume, lock, pid, databases, base, retry, runs>>

\* line 106: os.link(src_file, dest_file), outside the try of line 99
Link(p) ==
    /\ pc[p] = "link"
    /\ LET src_file == SrcFile(loc[p].db, loc[p].t)
           dest_file == join(SchDir(p), loc[p].t.name) IN
       \E e \in Results(link_err(src_file, dest_file)) :
          IF e = "ok"
          THEN /\ DoCreate(p, dest_file, storage[src_file])
               /\ Goto(p, "for_t")
               /\ loc' = [loc EXCEPT ![p].t = NoTable]
          ELSE RaiseInTry(p, e) /\ NoFsChange
    /\ UNCHANGED <<same_volume, lock, pid, databases, base, retry, runs>>

\* --------------------------------------------- _write_tree, the prune pass
\* mutant of by_name: the lookup finds nothing
by_name_none(S, name) == {}

\* dbs_by_name.get(name, None) and its like: the entry of that name, if any
by_name(S, name) == {x \in S : x.name = name}

\* mutant of Rmtree: os.rmdir(path), which refuses a directory that is not empty
Rmtree_Rmdir(p, path, rest) ==
    IF path \in dirs /\ Under(path) = {}
    THEN /\ DoRemove(p, {path})
         /\ Goto(p, pc[p])
         /\ loc' = rest
    ELSE /\ RaiseInTry(p, "ENOTEMPTY")
         /\ NoFsChange

\* shutil.rmtree(path): everything under path and path itself; or an error,
\* which may leave part of it removed
Rmtree(p, path, rest) ==
    \E e \in Results(scandir_err(path)) :
       IF e = "ok"
       THEN /\ DoRemove(p, Under(path) \cup {path})
            /\ Goto(p, pc[p])
            /\ loc' = rest
       ELSE /\ RaiseInTry(p, e)
            /\ \E R \in (IF e = "OSError" THEN PartialRemovals(path) ELSE {{}}) :
                  DoRemove(p, R)

\* line 110: os.scandir(destroot)
Scandir(p) ==
    /\ pc[p] = "scandir"
    /\ \E e \in Results(scandir_err(destroot)) :
          IF e = "ok"
          THEN /\ Goto(p, "for_d")
               /\ loc' = [loc EXCEPT ![p].it = listdir(destroot)]
          ELSE RaiseInTry(p, e)
    /\ NoFsChange
    /\ UNCHANGED <<same_volume, lock, pid, databases, base, retry, runs>>

\* mutant of ForD: no test for .pgfs, and an entry that is a file and not a
\* database goes by os.unlink
ForD_UnlinksFiles(p) ==
    /\ pc[p] = "for_d"
    /\ IF loc[p].it = {}
       THEN /\ pc' = [pc EXCEPT ![p] = "unlock"]
            /\ outcome' = [outcome EXCEPT ![p] = "ok"]
            /\ loc' = [loc EXCEPT ![p] = NoLoc]
            /\ NoFsChange
       ELSE \E d \in loc[p].it :
            LET rest == [loc EXCEPT ![p].it = @ \ {d}] IN
            IF by_name(databases[p], basename(d)) = {}
            THEN IF d \in DOMAIN files
                 THEN DoRemove(p, {d}) /\ Goto(p, "for_d") /\ loc' = rest
                 ELSE Rmtree(p, d, rest)
            ELSE /\ Goto(p, "scandir2")
                 /\ loc' = [rest EXCEPT ![p].d = d,
                               ![p].db = CHOOSE db \in by_name(databases[p], basename(d)) : TRUE]
                 /\ NoFsChange
    /\ UNCHANGED <<same_volume, lock, pid, databases, base, retry, runs>>

\* lines 111-118: the next entry d of destroot; the end of the scan is the
\* end of _write_tree
ForD(p) ==
    /\ pc[p] = "for_d"
    /\ IF loc[p].it = {}
       THEN /\ pc' = [pc EXCEPT ![p] = "unlock"]
            /\ outcome' = [outcome EXCEPT ![p] = "ok"]
            /\ loc' = [loc EXCEPT ![p] = NoLoc]
            /\ NoFsChange
       ELSE \E d \in loc[p].it :
            LET rest == [loc EXCEPT ![p].it = @ \ {d}] IN
            IF basename(d) = ".pgfs"
            THEN Goto(p, "for_d") /\ loc' = rest /\ NoFsChange
            ELSE IF by_name(databases[p], basename(d)) = {}
            THEN Rmtree(p, d, rest)
            ELSE /\ Goto(p, "scandir2")
                 /\ loc' = [rest EXCEPT ![p].d = d,
                               ![p].db = CHOOSE db \in by_name(databases[p], basename(d)) : TRUE]
                 /\ NoFsChange
    /\ UNCHANGED <<same_volume, lock, pid, databases, base, retry, runs>>

\* line 119: os.scandir(d.path)
Scandir2(p) ==
    /\ pc[p] = "scandir2"
    /\ \E e \in Results(scandir_err(loc[p].d)) :
          IF e = "ok"
          THEN /\ Goto(p, "for_d2")
               /\ loc' = [loc EXCEPT ![p].it2 = listdir(loc[p].d)]
          ELSE RaiseInTry(p, e)
    /\ NoFsChange
    /\ UNCHANGED <<same_volume, lock, pid, databases, base, retry, runs>>

\* lines 120-127: the next entry d2 of a retained database directory
ForD2(p) ==
    /\ pc[p] = "for_d2"
    /\ IF loc[p].it2 = {}
       THEN /\ Goto(p, "for_d")
            /\ loc' = [loc EXCEPT ![p].d = << >>, ![p].db = NoDb]
            /\ NoFsChange
       ELSE \E d2 \in loc[p].it2 :
            LET rest == [loc EXCEPT ![p].it2 = @ \ {d2}] IN
            IF by_name(loc[p].db.schemas, basename(d2)) = {}
            THEN Rmtree(p, d2, rest)
            ELSE /\ Goto(p, "scandir3")
                 /\ loc' = [rest EXCEPT ![p].d2 = d2,
                               ![p].sch = CHOOSE sch \in by_name(loc[p].db.schemas, basename(d2)) : TRUE]
                 /\ NoFsChange
    /\ UNCHANGED <<same_volume, lock, pid, databases, base, retry, runs>>

\* line 128: os.scandir(d2.path)
Scandir3(p) ==
    /\ pc[p] = "scandir3"
    /\ \E e \in Results(scandir_err(loc[p].d2)) :
          IF e = "ok"
          THEN /\ Goto(p, "for_d3")
               /\ loc' = [loc EXCEPT ![p].it3 = listdir(loc[p].d2)]
          ELSE RaiseInTry(p, e)
    /\ NoFsChange
    /\ UNCHANGED <<same_volume, lock, pid, databases, base, retry, runs>>

\* mutant of ForD3: the scan of the directory ends at the first os.unlink
ForD3_ScanEndsAtUnlink(p) ==
    /\ pc[p] = "for_d3"
    /\ IF loc[p].it3 = {}
       THEN /\ Goto(p, "for_d2")
            /\ loc' = [loc EXCEPT ![p].d2 = << >>, ![p].sch = NoSch]
            /\ NoFsChange
       ELSE \E d3 \in loc[p].it3 :
            LET rest == [loc EXCEPT ![p].it3 = @ \ {d3}] IN
            IF by_name(loc[p].sch.tables, basename(d3)) = {}
            THEN \E e \in Results(unlink_err(d3)) :
                    IF e = "ok"
                    THEN /\ DoRemove(p, {d3})
                         /\ Goto(p, "for_d3")
                         /\ loc' = [loc EXCEPT ![p].it3 = {}]
                    ELSE RaiseInTry(p, e) /\ NoFsChange
            ELSE Goto(p, "for_d3") /\ loc' = rest /\ NoFsChange
    /\ UNCHANGED <<same_volume, lock, pid, databases, base, retry, runs>>

\* lines 129-132: the next entry d3 of a retained schema directory
ForD3(p) ==
    /\ pc[p] = "for_d3"
    /\ IF loc[p].it3 = {}
       THEN /\ Goto(p, "for_d2")
            /\ loc' = [loc EXCEPT ![p].d2 = << >>, ![p].sch = NoSch]
            /\ NoFsChange
       ELSE \E d3 \in loc[p].it3 :
            LET rest == [loc EXCEPT ![p].it3 = @ \ {d3}] IN
            IF by_name(loc[p].sch.tables, basename(d3)) = {}
            THEN \E e \in Results(unlink_err(d3)) :
                    IF e = "ok"
                    THEN /\ DoRemove(p, {d3})
                         /\ Goto(p, "for_d3")
                         /\ loc' = rest
                    ELSE RaiseInTry(p, e) /\ NoFsChange
            ELSE Goto(p, "for_d3") /\ loc' = rest /\ NoFsChange
    /\ UNCHANGED <<same_volume, lock, pid, databases, base, retry, runs>>

\* ------------------------------------------------------- specifications
Ino(src) == src[2] * 10 + src[3]

\* destroot before the first invocation: missing, empty, or somebody's directory
InitTrees == {<<{}, << >> >>,
              <<{destroot}, << >> >>,
              <<{destroot, <<"home">>}, (<<"home", "notes">> :> 7)>>}

InitWith(sv) ==
    /\ \E tree \in InitTrees : dirs = tree[1] /\ files = tree[2]
    /\ storage = [src \in BaseFiles |-> Ino(src)]
    /\ lock = 0
    /\ pid = [p \in Procs |-> 0]
    /\ pc = [p \in Procs |-> "idle"]
    /\ databases = [p \in Procs |-> {}]
    /\ loc = [p \in Procs |-> NoLoc]
    /\ outcome = [p \in Procs |-> "none"]
    /\ created = [p \in Procs |-> {}]
    /\ removed = [p \in Procs |-> {}]
    /\ base = [p \in Procs |-> {}]
    /\ retry = [p \in Procs |-> "no"]
    /\ lastSync = {}
    /\ runs = 0
    /\ same_volume = sv

\* destroot on the filesystem of pgroot, as hard links need it
Init == InitWith(TRUE)

\* destroot on any filesystem
InitVolume == \E sv \in BOOLEAN : InitWith(sv)

Step(p) ==
    \/ IsDir(p) \/ ListDir(p) \/ IsFile(p) \/ MakeRoot(p) \/ Touch(p)
    \/ LockOpen(p) \/ LockFile(p) \/ UnlockFile(p)
    \/ ForDb(p) \/ ForSch(p) \/ ForT(p) \/ SameInode(p) \/ Unlink(p) \/ Link(p)
    \/ Scandir(p) \/ ForD(p) \/ Scandir2(p) \/ ForD2(p) \/ Scandir3(p) \/ ForD3(p)

\* invocations one after the other, of any snapshot
Next ==
    \/ \E p \in SeqProcs : \E S \in Snapshots : Start(p, S)
    \/ \E p \in SeqProcs : Step(p)

Spec == Init /\ [][Next]_vars

SpecVolume == InitVolume /\ [][Next]_vars

\* invocations one after the other, table names of any kind
NextNames ==
    \/ \E p \in SeqProcs : \E S \in NameSnapshots : Start(p, S)
    \/ \E p \in SeqProcs : Step(p)

SpecNames == Init /\ [][NextNames]_vars

\* invocations side by side, one per process
NextConc ==
    \/ \E p \in Procs : \E S \in ConcSnapshots : pc[p] = "idle" /\ Start(p, S)
    \/ \E p \in Procs : Step(p)

SpecConc == Init /\ [][NextConc]_vars

\* ------------------------------------------------- the tree of a snapshot
DbPath(db) == join(destroot, db.name)

SchPath(db, sch) == join(DbPath(db), sch.name)

TablePath(db, sch, t) == join(SchPath(db, sch), t.name)

\* the directories a snapshot asks for
DirsOf(S) ==
    {destroot} \cup {DbPath(db) : db \in S}
               \cup UNION {{SchPath(db, sch) : sch \in db.schemas} : db \in S}

\* the links a snapshot asks for, each with its source file
LinksOf(S) ==
    UNION {UNION {{<<TablePath(db, sch, t), SrcFile(db, t)>> : t \in sch.tables}
                  : sch \in db.schemas} : db \in S}

LinkPaths(S) == {l[1] : l \in LinksOf(S)}

\* the links of the tree, each with its inode, the sentinel left out
TreeLinks == {<<f, files[f]>> : f \in DOMAIN files \ {dot_pgfs}}

Exited(p) == pc[p] = "exited"

\* the invocation met no I/O error of the environment
NoIOError(p) == outcome[p] # "OSError"

\* C1 (convergence): when an invocation ends successfully, the directories
\* under destroot are exactly the database and schema directories of its
\* snapshot, the files other than .pgfs are exactly its table links, and
\* every link has the inode of its source file base/<db.oid>/<relfilenode>.
C1_Convergence ==
    \A p \in Procs :
       Exited(p) /\ outcome[p] = "ok" =>
          /\ dirs = DirsOf(databases[p])
          /\ TreeLinks = {<<l[1], storage[l[2]]>> : l \in LinksOf(databases[p])}

\* a successful run that had to create, repair and prune, on an earlier tree
C1_Witness ==
    \E p \in Procs :
       /\ Exited(p) /\ outcome[p] = "ok" /\ runs = 2
       /\ created[p] \cap removed[p] # {}
       /\ removed[p] \ created[p] # {}
       /\ created[p] \ removed[p] # {}

\* C2 (idempotence): an invocation given the snapshot the tree was last
\* synced to creates nothing and removes nothing, at any point of its run.
C2_Idempotence ==
    \A p \in Procs :
       base[p] = {databases[p]} => created[p] = {} /\ removed[p] = {}

\* a second run of a snapshot with two databases and links, ended successfully
C2_Witness ==
    \E p \in Procs :
       /\ Exited(p) /\ outcome[p] = "ok"
       /\ base[p] = {databases[p]}
       /\ Cardinality(databases[p]) = 2
       /\ Cardinality(LinksOf(databases[p])) = 3

\* destroot exists, is not empty and has no sentinel file
UnsafeRoot ==
    /\ destroot \in dirs
    /\ listdir(destroot) # {}
    /\ dot_pgfs \notin DOMAIN files

\* C3 (unsafe root): while destroot is a non-empty directory without .pgfs,
\* no step changes the tree or takes the lock, and an invocation that ends
\* has ended with UnsafeRoot (or with an I/O error of os.listdir) having
\* created and removed nothing.
C3_UnsafeRootSafety ==
    /\ [](UnsafeRoot =>
            \A p \in Procs :
               Exited(p) => /\ outcome[p] \in {"UnsafeRoot", "OSError"}
                            /\ created[p] = {} /\ removed[p] = {}
                            /\ lock = 0)
    /\ [][UnsafeRoot => dirs' = dirs /\ files' = files /\ lock' = lock]_vars

\* an invocation refused on somebody's directory, which is still there
C3_Witness ==
    \E p \in Procs :
       /\ Exited(p) /\ outcome[p] = "UnsafeRoot"
       /\ UnsafeRoot
       /\ <<"home", "notes">> \in DOMAIN files

\* C4 (mutual exclusion outcome): of two invocations that both ended without
\* an I/O error of the environment, not both having completed, one completed
\* and the other ended with AlreadyLocked having created and removed nothing.
C4_MutualExclusionOutcome ==
    \A p \in Procs : \A q \in Procs \ {p} :
       /\ Exited(p) /\ Exited(q)
       /\ NoIOError(p) /\ NoIOError(q)
       /\ outcome[p] # "UnsafeRoot" /\ outcome[q] # "UnsafeRoot"
       /\ outcome[p] # "ok"
       => /\ outcome[q] = "ok"
          /\ outcome[p] = "AlreadyLocked"
          /\ created[p] = {} /\ removed[p] = {}

\* inside _write_tree: the forward pass or the prune pass
InWriteTree(p) ==
    pc[p] \in {"for_db", "for_sch", "for_t", "same_inode", "unlink", "link",
               "scandir", "for_d", "scandir2", "for_d2", "scandir3", "for_d3"}

\* C5 (one pass per root): at most one invocation is inside _write_tree, and
\* it is the one holding the lock on .pgfs.
C5_OnePass ==
    \A p \in Procs :
       InWriteTree(p) =>
          /\ lock = pid[p]
          /\ \A q \in Procs \ {p} : ~InWriteTree(q)

\* one invocation in the prune pass while another is about to call lockf
C5_Witness ==
    \E p \in Procs : \E q \in Procs \ {p} :
       pc[p] = "for_d3" /\ pc[q] = "lockf"

\* invocation p creates or removes an entry in this step
Mutates(p) ==
    (created'[p] \ created[p]) \cup (removed'[p] \ removed[p]) # {}

C7_LockReleased ==
    \A p \in Procs :
       /\ Exited(p) => lock = 0
       /\ outcome[p] # "AlreadyLocked"

\* a second invocation inside _write_tree, after a first one that was aborted
\* by an I/O error with part of the tree written
C7_Witness ==
    \E p \in Procs :
       /\ runs = 2 /\ pc[p] = "for_db" /\ lock = pid[p]
       /\ base[p] = {} /\ created[p] = {}
       /\ Cardinality(dirs) > 1

\* C8 (repair): when a table of the snapshot the tree was synced to is in the
\* new snapshot under the same path with another source file, an invocation
\* that ends without an I/O error of the environment has ended successfully,
\* has removed and created the link at that path, which now has the inode of
\* the new source file, and no file of the tree has the inode of the old one.
C8_Repair ==
    \A p \in Procs : \A S1 \in base[p] :
       Exited(p) /\ NoIOError(p) =>
          \A old \in LinksOf(S1) : \A new \in LinksOf(databases[p]) :
             old[1] = new[1] /\ old[2] # new[2] =>
                /\ outcome[p] = "ok"
                /\ st_ino(new[1]) = storage[new[2]]
                /\ new[1] \in removed[p] \cap created[p]
                /\ \A f \in DOMAIN files : files[f] # storage[old[2]]

\* A.s.t1 rewritten from relfilenode 1 to 2 between two successful runs
C8_Witness ==
    \E p \in Procs :
       /\ Exited(p) /\ outcome[p] = "ok"
       /\ \E S1 \in base[p] :
             /\ <<<<"A", "s", "t1">>, <<"base", 16384, 1>> >> \in LinksOf(S1)
             /\ <<<<"A", "s", "t1">>, <<"base", 16384, 2>> >> \in LinksOf(databases[p])

\* S2 is S1 with some tables removed: the same directories, fewer links
TablesRemoved(S1, S2) ==
    /\ DirsOf(S2) = DirsOf(S1)
    /\ LinksOf(S2) \subseteq LinksOf(S1)
    /\ LinksOf(S2) # LinksOf(S1)

\* C9 (table pruning frame): an invocation whose snapshot is the one the tree
\* was synced to with some tables removed creates nothing and removes nothing
\* but links of removed tables; when it ends without an I/O error of the
\* environment it has ended successfully and has removed exactly those links.
C9_TablePruningFrame ==
    \A p \in Procs : \A S1 \in base[p] :
       TablesRemoved(S1, databases[p]) =>
          LET gone == LinkPaths(S1) \ LinkPaths(databases[p]) IN
          /\ created[p] = {}
          /\ removed[p] \subseteq gone
          /\ Exited(p) /\ NoIOError(p) => outcome[p] = "ok" /\ removed[p] = gone

\* the spec's example: A.s had t1 and t2, t2 is removed and t1 is kept
C9_Witness ==
    \E p \in Procs : \E S1 \in base[p] :
       /\ Exited(p) /\ outcome[p] = "ok"
       /\ TablesRemoved(S1, databases[p])
       /\ removed[p] = {<<"A", "s", "t2">>}
       /\ <<"A", "s", "t1">> \in DOMAIN files

\* S2 is S1 with some databases or schemas dropped and nothing else changed
Dropped(S1, S2) ==
    /\ DirsOf(S2) \subseteq DirsOf(S1)
    /\ DirsOf(S2) # DirsOf(S1)
    /\ LinksOf(S2) = {l \in LinksOf(S1) : Parent(l[1]) \in DirsOf(S2)}

\* C10 (drop-cascade): an invocation whose snapshot is the one the tree was
\* synced to with some databases or schemas dropped creates nothing, removes
\* nothing but the dropped directories and what is under them, and leaves
\* .pgfs; when it ends without an I/O error of the environment it has ended
\* successfully and has removed every dropped directory with all under it.
C10_DropCascade ==
    \A p \in Procs : \A S1 \in base[p] :
       Dropped(S1, databases[p]) =>
          LET gone == (DirsOf(S1) \ DirsOf(databases[p]))
                         \cup (LinkPaths(S1) \ LinkPaths(databases[p])) IN
          /\ created[p] = {}
          /\ removed[p] \subseteq gone
          /\ dot_pgfs \in DOMAIN files
          /\ Exited(p) /\ NoIOError(p) => outcome[p] = "ok" /\ removed[p] = gone

\* database A dropped with its schema and tables, database B kept with its
\* schema and table
C10_Witness ==
    \E p \in Procs : \E S1 \in base[p] :
       /\ Exited(p) /\ outcome[p] = "ok"
       /\ Dropped(S1, databases[p])
       /\ removed[p] = {<<"A">>, <<"A", "s">>, <<"A", "s", "t1">>, <<"A", "s", "t2">>}
       /\ <<"B", "s", "t1">> \in DOMAIN files

\* the destination was missing or empty before the first invocation: nobody
\* else's entries are in it
NotForeign == <<"home">> \notin dirs

\* C11 (root bootstrap): the bootstrap branch is taken exactly when destroot
\* is missing or empty; an invocation on a destination that was missing or
\* empty, meeting no I/O error, ends successfully with destroot and an empty
\* .pgfs in place, and so does every later one: none ends with UnsafeRoot.
C11_RootBootstrap ==
    \A p \in Procs :
       /\ pc[p] \in {"makedirs", "touch"} =>
             destroot \notin dirs \/ listdir(destroot) = {}
       /\ pc[p] = "isfile" => destroot \in dirs /\ listdir(destroot) # {}
       /\ Exited(p) /\ NoIOError(p) /\ NotForeign =>
             /\ outcome[p] = "ok"
             /\ destroot \in dirs
             /\ dot_pgfs \in DOMAIN files /\ files[dot_pgfs] = 0

\* a second run that found the sentinel of the first and synced a database
C11_Witness ==
    \E p \in Procs :
       /\ Exited(p) /\ outcome[p] = "ok" /\ runs = 2
       /\ NotForeign
       /\ dot_pgfs \notin created[p]
       /\ base[p] = {{}}
       /\ created[p] # {}

\* C12 (re-sync after a partial failure): an invocation given the snapshot
\* of the invocation before it, which an I/O error had cut short at whatever
\* step, ends successfully when it meets no I/O error itself, and leaves
\* exactly the directories and links of the snapshot.
C12_ResyncAfterFailure ==
    \A p \in Procs :
       retry[p] # "no" /\ NotForeign /\ Exited(p) /\ NoIOError(p) =>
          /\ outcome[p] = "ok"
          /\ dirs = DirsOf(databases[p])
          /\ \A f \in DOMAIN files \ {dot_pgfs} :
                \E l \in LinksOf(databases[p]) :
                   l[1] = f /\ storage[l[2]] = files[f]
          /\ LinkPaths(databases[p]) \subseteq DOMAIN files

\* a run that made the link again which the run before had removed and, cut
\* short before line 106, not made; it also pruned what that run had not
C12_Witness ==
    \E p \in Procs :
       /\ retry[p] = "midrepair" /\ Exited(p) /\ outcome[p] = "ok"
       /\ created[p] \cap LinkPaths(databases[p]) # {}
       /\ removed[p] # {}

\* C13 (volume check): when destroot and pgroot are not on one filesystem,
\* no invocation gets as far as an os.link that fails with EXDEV in the
\* middle of the forward pass: a check made beforehand has ended it.
C13_VolumeCheck ==
    \A p \in Procs : ~same_volume => outcome[p] # "OSError(EXDEV)"

\* the links of S1 that S2 does not ask for as they are
StaleLinks(S1, S2) == {l[1] : l \in LinksOf(S1) \ LinksOf(S2)}

\* the links of S2 that S1 did not have as they are
FreshLinks(S1, S2) == {l[1] : l \in LinksOf(S2) \ LinksOf(S1)}

\* C14 (order independence): whatever order the loops of the forward pass
\* and the scans of the prune pass take, an invocation of snapshot S2 that
\* ends successfully on the tree of snapshot S1 leaves the same tree, the
\* entries of S2 and the sentinel, having created and removed the same
\* paths: what S2 has and S1 had not, and what S1 had and S2 has not.
C14_OrderIndependence ==
    \A p \in Procs : \A S1 \in base[p] :
       Exited(p) /\ outcome[p] = "ok" =>
          LET S2 == databases[p] IN
          /\ Entries = DirsOf(S2) \cup LinkPaths(S2) \cup {dot_pgfs}
          /\ \A l \in LinksOf(S2) : files[l[1]] = storage[l[2]]
          /\ created[p] = (DirsOf(S2) \ DirsOf(S1)) \cup FreshLinks(S1, S2)
          /\ removed[p] = (DirsOf(S1) \ DirsOf(S2)) \cup StaleLinks(S1, S2)

\* a run with two databases to loop over, something to create, and two
\* links to prune in one scan of a schema directory
C14_Witness ==
    \E p \in Procs : \E S1 \in base[p] :
       /\ Exited(p) /\ outcome[p] = "ok"
       /\ Cardinality(databases[p]) = 2
       /\ created[p] # {}
       /\ \E f \in removed[p] : \E g \in removed[p] :
             f # g /\ Len(f) = 3 /\ Parent(f) = Parent(g) /\ Parent(f) \in dirs

\* an exception was raised in the invocation
Failed(p) == outcome[p] \notin {"none", "running", "ok"}

\* C15 (abort on a filesystem error): from the step in which a call fails to
\* the end of the invocation nothing more is created or removed by it (a
\* failure in the forward pass leaves the prune pass undone), and what it had
\* created and removed before stays: what it created is in the tree, what it
\* removed and did not make again is not.
C15_AbortOnError ==
    /\ [](\A p \in SeqProcs :
            Failed(p) => /\ created[p] \subseteq Entries
                         /\ (removed[p] \ created[p]) \cap Entries = {})
    /\ [][\A p \in Procs :
            Failed(p) /\ pc'[p] # "isdir" =>
               /\ created'[p] = created[p] /\ removed'[p] = removed[p]
               /\ pc'[p] \in {"unlock", "exited"}]_vars

\* a run cut short in the forward pass after it had created something: the
\* link of a table its snapshot does not have is still there, nothing pruned
C15_Witness ==
    \E p \in Procs :
       /\ Exited(p) /\ outcome[p] = "OSError"
       /\ created[p] # {} /\ removed[p] = {}
       /\ \E f \in DOMAIN files \ {dot_pgfs} : f \notin LinkPaths(databases[p])

\* inside the prune pass of _write_tree
InPrune(p) ==
    pc[p] \in {"scandir", "for_d", "scandir2", "for_d2", "scandir3", "for_d3"}

\* C16 (pruning is by name only): no step of the prune pass removes the
\* directory of a database or schema of the snapshot or the link of a table
\* of the snapshot, whatever that link points to; a link whose table has a
\* new relfilenode goes only by the os.unlink of the forward pass, which the
\* os.link of line 106 follows.
C16_PruneByName ==
    [][\A p \in Procs :
          /\ InPrune(p) =>
                (removed'[p] \ removed[p])
                   \cap (DirsOf(databases[p]) \cup LinkPaths(databases[p])) = {}
          /\ \A f \in (removed'[p] \ removed[p]) \cap LinkPaths(databases[p]) :
                pc[p] = "unlink" /\ pc'[p] = "link"]_vars

\* the scan of a schema directory is over: it removed the link of a table
\* that is gone and kept the link the forward pass had repaired
C16_Witness ==
    \E p \in Procs :
       /\ pc[p] = "for_d3" /\ loc[p].it3 = {}
       /\ \E f \in created[p] \cap removed[p] :
             Parent(f) = loc[p].d2 /\ f \in DOMAIN files
       /\ \E g \in removed[p] \ created[p] : Parent(g) = loc[p].d2

\* inside the forward pass of _write_tree
InForward(p) ==
    pc[p] \in {"for_db", "for_sch", "for_t", "same_inode", "unlink", "link"}

\* C17 (pass ordering): while an invocation is in the prune pass every
\* directory and every link of its snapshot is in place, with the inode of
\* its source file; the prune pass creates nothing and never goes back to
\* the forward pass, and the forward pass removes nothing but the link it is
\* about to make again.
C17_PassOrdering ==
    /\ [](\A p \in SeqProcs :
            InPrune(p) =>
               /\ DirsOf(databases[p]) \subseteq dirs
               /\ \A l \in LinksOf(databases[p]) :
                     l[1] \in DOMAIN files /\ files[l[1]] = storage[l[2]])
    /\ [][\A p \in Procs :
            /\ InPrune(p) => created'[p] = created[p] /\ ~InForward(p)'
            /\ InForward(p) /\ removed'[p] # removed[p] =>
                  pc[p] = "unlink" /\ pc'[p] = "link"]_vars

\* the prune pass has removed something, after a forward pass that created
\* a directory or link and repaired a link
C17_Witness ==
    \E p \in Procs :
       /\ pc[p] = "for_d"
       /\ removed[p] \ created[p] # {}
       /\ created[p] \ removed[p] # {}
       /\ created[p] \cap removed[p] # {}

C19_StorageFrame ==
    /\ [](\A p \in Procs : \A f \in removed[p] : ~InPgroot(f))
    /\ [][storage' = storage]_vars

====
